---------------------------- MODULE Spec2Model ----------------------------
(***************************************************************************)
(* Model of the Adagio visitor-id lookup service (src/main.py).            *)
(*                                                                         *)
(* One POST /lookup request is handled at a time.  Its steps are the       *)
(* framework reading the body, the get_api_key dependency (which calls     *)
(* verify_api_key and, through it, get_api_tokens), the validation of the  *)
(* body against LookupRequest, and the handler lookup_visitor_id with its  *)
(* Firestore query.  The secret store, the document store and the clock    *)
(* are external: what they answer is chosen freshly at every access.       *)
(*                                                                         *)
(* Python strings are sequences of one-character strings; Python and JSON  *)
(* values are tagged records, so that a list, a number or None is never    *)
(* confused with a string or a dict.                                       *)
(***************************************************************************)
EXTENDS Integers, Sequences, FiniteSets, TLC

\* ------------------------------------------------------------------ bounds

\* Largest number of documents in the visitor_ids collection.
MaxDocs == 2

\* Largest reading of the clock (datetime.utcnow()).
MaxClock == 1

\* ----------------------------------------------------------- string literals

Bearer ==
    << "B", "e", "a", "r", "e", "r", " " >>

Key1 ==
    << "a", "d", "a", "g", "i", "o", "_", "t", "o", "k", "e", "n", "_", "1" >>

Key2 ==
    << "a", "d", "a", "g", "i", "o", "_", "t", "o", "k", "e", "n", "_", "2" >>

Default1 ==
    << "s", "k", "_", "t", "e", "s", "t", "_", "Y", "O", "U", "R", "_", "T", "E", "S",
       "T", "_", "T", "O", "K", "E", "N", "_", "H", "E", "R", "E" >>

Default2 ==
    << "s", "k", "_", "l", "i", "v", "e", "_", "Y", "O", "U", "R", "_", "L", "I", "V",
       "E", "_", "T", "O", "K", "E", "N", "_", "H", "E", "R", "E" >>

DetailKeyRequired ==
    << "A", "P", "I", " ", "k", "e", "y", " ", "r", "e", "q", "u", "i", "r", "e", "d",
       " ", "i", "n", " ", "A", "u", "t", "h", "o", "r", "i", "z", "a", "t", "i", "o",
       "n", " ", "h", "e", "a", "d", "e", "r" >>

DetailInvalidKey ==
    << "I", "n", "v", "a", "l", "i", "d", " ", "A", "P", "I", " ", "k", "e", "y" >>

DetailNotFoundPrefix ==
    << "N", "o", " ", "v", "i", "s", "i", "t", "o", "r", " ", "I", "D", " ", "f", "o",
       "u", "n", "d", " ", "f", "o", "r", " ", "u", "s", "e", "r", "_", "i", "d", ":",
       " " >>

DetailFieldMissing ==
    << "V", "i", "s", "i", "t", "o", "r", " ", "I", "D", " ", "f", "i", "e", "l", "d",
       " ", "m", "i", "s", "s", "i", "n", "g", " ", "i", "n", " ", "d", "a", "t", "a",
       "b", "a", "s", "e", " ", "r", "e", "c", "o", "r", "d" >>

UserIdField ==
    << "u", "s", "e", "r", "_", "i", "d" >>

VisitorIdField ==
    << "v", "i", "s", "i", "t", "o", "r", "_", "i", "d" >>

DetailInternal ==
    << "I", "n", "t", "e", "r", "n", "a", "l", " ", "s", "e", "r", "v", "e", "r", " ",
       "e", "r", "r", "o", "r", " ", "d", "u", "r", "i", "n", "g", " ", "l", "o", "o",
       "k", "u", "p" >>

\* ------------------------------------------------------------ Python values

\* A Python value is a record of its type t, its characters s (a str, the
\* digits of an int) and its members m (the items of a dict, in insertion
\* order, or of a list), each member a record of a key k and a value x.
PyStr(s) == [t |-> "str", s |-> s, m |-> << >>]

PyInt(digits) == [t |-> "int", s |-> digits, m |-> << >>]

PyNone == [t |-> "None", s |-> << >>, m |-> << >>]

PyList(members) == [t |-> "list", s |-> << >>, m |-> members]

PyDict(members) == [t |-> "dict", s |-> << >>, m |-> members]

\* One item of a dict (of a list: its key is empty).
Item(k, x) == [k |-> k, x |-> x]

\* Truth value of a Python object, as `not x` and `if x` use it.
Truthy(x) ==
    CASE x.t = "None" -> FALSE
      [] x.t = "str" -> x.s # << >>
      [] x.t = "int" -> x.s # << "0" >>
      [] OTHER -> x.m # << >>

\* str.startswith(prefix)
startswith(s, prefix) ==
    /\ Len(s) >= Len(prefix)
    /\ SubSeq(s, 1, Len(prefix)) = prefix

\* s[n:]
SliceFrom(s, n) == SubSeq(s, n + 1, Len(s))

\* needle in haystack, for strings
Contains(haystack, needle) ==
    \E i \in 0 .. (Len(haystack) - Len(needle)) :
        SubSeq(haystack, i + 1, i + Len(needle)) = needle

\* dict.values()
dict_values(d) == {d.m[i].x : i \in DOMAIN d.m}

\* dict.get(key), None when the key is absent
dict_get(d, key) ==
    IF \E i \in DOMAIN d.m : d.m[i].k = key
    THEN d.m[CHOOSE i \in DOMAIN d.m : d.m[i].k = key].x
    ELSE PyNone

\* -------------------------------------------------------------- JSON values

\* A JSON value, laid out as a Python value is.
JString(s) == [j |-> "string", s |-> s, m |-> << >>]

JNumber(digits) == [j |-> "number", s |-> digits, m |-> << >>]

JNull == [j |-> "null", s |-> << >>, m |-> << >>]

JArray(members) == [j |-> "array", s |-> << >>, m |-> members]

JObject(members) == [j |-> "object", s |-> << >>, m |-> members]

\* json.loads on a scalar
json_scalar(x) ==
    CASE x.j = "string" -> PyStr(x.s)
      [] x.j = "number" -> PyInt(x.s)
      [] OTHER -> PyNone

\* json.loads: an object becomes a dict, an array a list, a string a str, a
\* number an int and null None.
json_loads(x) ==
    CASE x.j = "object" ->
            PyDict([i \in DOMAIN x.m |-> Item(x.m[i].k, json_scalar(x.m[i].x))])
      [] x.j = "array" ->
            PyList([i \in DOMAIN x.m |-> Item(x.m[i].k, json_scalar(x.m[i].x))])
      [] OTHER -> json_scalar(x)

\* --------------------------------------------------------------- exceptions

\* fastapi.HTTPException(status_code, detail)
HTTPException(status_code, detail) ==
    [exc |-> "HTTPException", status_code |-> status_code, detail |-> detail]

\* fastapi.exceptions.RequestValidationError: the body does not fit LookupRequest
RequestValidationError == [exc |-> "RequestValidationError"]

\* 'list' (or str, int, NoneType) object has no attribute 'values'
AttributeError == [exc |-> "AttributeError"]

\* What the Firestore client raises when the query cannot be served.
StoreError == [exc |-> "GoogleAPICallError"]

\* ------------------------------------------------------------ Token Provider

\* The process environment: API_TOKEN_1 and API_TOKEN_2, each unset (None) or set.
Environments ==
    { [API_TOKEN_1 |-> PyNone, API_TOKEN_2 |-> PyNone],
      [API_TOKEN_1 |-> PyStr(<< >>), API_TOKEN_2 |-> PyNone],
      [API_TOKEN_1 |-> PyStr(<< "a" >>), API_TOKEN_2 |-> PyStr(<< "b" >>)] }

\* os.getenv(name, default)
getenv(e, name, default) == IF e[name].t = "None" THEN default ELSE e[name].s

\* Names of tokens in the secret's JSON object.
T1 == << "t", "1" >>

T2 == << "t", "2" >>

\* JSON documents the secret version can hold.
SecretJson ==
    { JObject(<< >>),
      JObject(<< Item(T1, JString(<< "a" >>)) >>),
      JObject(<< Item(T1, JString(<< "a" >>)), Item(T2, JString(<< "b" >>)) >>),
      JObject(<< Item(T1, JString(<< >>)) >>),
      JObject(<< Item(T1, JNumber(<< "1" >>)) >>),
      JObject(<< Item(T2, JString(T1)) >>),
      JArray(<< Item(<< >>, JString(<< "a" >>)) >>),
      JString(<< "a" >>),
      JNumber(<< "1" >>),
      JNull }

\* Outcomes of reading the secret: access_secret_version raises (network,
\* permission), the payload is not UTF-8, the text is not JSON, or it is JSON.
SecretOutcomes ==
    { [kind |-> k, payload |-> JNull] :
        k \in {"access_error", "undecodable", "unparsable"} }
    \cup { [kind |-> "json", payload |-> x] : x \in SecretJson }

\* No read of the secret was made.
NoAccess == [kind |-> "none", payload |-> JNull]

\* The value of a local that was never assigned.
NotFetched == [t |-> "unset", s |-> << >>, m |-> << >>]

fallback_tokens(e) ==
    PyDict(<< Item(Key1, PyStr(getenv(e, "API_TOKEN_1", Default1))),
              Item(Key2, PyStr(getenv(e, "API_TOKEN_2", Default2))) >>)

\* get_api_tokens: whatever json.loads returns, or the fallback on an exception.
get_api_tokens(outcome, e) ==
    IF outcome.kind = "json"
    THEN json_loads(outcome.payload)
    ELSE fallback_tokens(e)

\* -------------------------------------------------------------- Authenticator

\* verify_api_key with the membership test on the mapping itself as well as on
\* its values (`token in api_tokens`), so that a token's name is accepted too.
verify_api_key_names(api_key, outcome, e) ==
    IF ~Truthy(api_key)
    THEN [ret |-> "False", api_tokens |-> NotFetched]
    ELSE IF ~startswith(api_key.s, Bearer)
    THEN [ret |-> "False", api_tokens |-> NotFetched]
    ELSE LET token == SliceFrom(api_key.s, 7)
             api_tokens == get_api_tokens(outcome, e)
         IN  IF api_tokens.t # "dict"
             THEN [ret |-> "raise", api_tokens |-> api_tokens]
             ELSE IF /\ PyStr(token) \notin dict_values(api_tokens)
                     /\ token \notin {api_tokens.m[i].k : i \in DOMAIN api_tokens.m}
             THEN [ret |-> "False", api_tokens |-> api_tokens]
             ELSE [ret |-> "True", api_tokens |-> api_tokens]

\* verify_api_key: ret is what the call does, api_tokens the mapping it fetched.
verify_api_key(api_key, outcome, e) ==
    IF ~Truthy(api_key)
    THEN [ret |-> "False", api_tokens |-> NotFetched]
    ELSE IF ~startswith(api_key.s, Bearer)
    THEN [ret |-> "False", api_tokens |-> NotFetched]
    ELSE LET token == SliceFrom(api_key.s, 7)
             api_tokens == get_api_tokens(outcome, e)
         IN  IF api_tokens.t # "dict"
             THEN [ret |-> "raise", api_tokens |-> api_tokens]
             ELSE IF PyStr(token) \notin dict_values(api_tokens)
             THEN [ret |-> "False", api_tokens |-> api_tokens]
             ELSE [ret |-> "True", api_tokens |-> api_tokens]

\* get_api_key, the dependency of POST /lookup.
get_api_key(auth, outcome, e) ==
    IF ~Truthy(auth)
    THEN [ret |-> "raise", exc |-> HTTPException(401, DetailKeyRequired),
          verified |-> "none", api_tokens |-> NotFetched]
    ELSE LET v == verify_api_key(auth, outcome, e)
         IN  CASE v.ret = "raise" ->
                    [ret |-> "raise", exc |-> AttributeError,
                     verified |-> "raise", api_tokens |-> v.api_tokens]
               [] v.ret = "False" ->
                    [ret |-> "raise", exc |-> HTTPException(401, DetailInvalidKey),
                     verified |-> "False", api_tokens |-> v.api_tokens]
               [] OTHER ->
                    [ret |-> "return", exc |-> AttributeError,
                     verified |-> "True", api_tokens |-> v.api_tokens]

\* ----------------------------------------------------------------- responses

\* fastapi.responses.JSONResponse(status_code, content)
JSONResponse(status_code, content) == [status |-> status_code, content |-> content]

\* The body on which ErrorResponse is patterned: {error, message, status_code}.
ErrorBody(error, message, status_code) ==
    [shape |-> "error", error |-> error, message |-> message,
     status_code |-> status_code]

\* The framework's own body for an HTTPException or a validation error.
DetailBody(detail) == [shape |-> "detail", detail |-> detail]

\* The server's bare text/plain "Internal Server Error".
PlainServerError == [status |-> 500, content |-> [shape |-> "text"]]

\* No response has been sent yet.
NoResponse == [status |-> 0, content |-> [shape |-> "none"]]

not_found_handler(exc) ==
    JSONResponse(404, ErrorBody("Not Found", exc.detail, 404))

unauthorized_handler(exc) ==
    JSONResponse(401, ErrorBody("Unauthorized", exc.detail, 401))

\* internal_error_handler reads exc.detail, which only an HTTPException has:
\* on any other exception the handler itself raises.
internal_error_handler(exc) ==
    IF "detail" \in DOMAIN exc
    THEN [ret |-> "return",
          value |-> JSONResponse(500, ErrorBody("Internal Server Error", exc.detail, 500))]
    ELSE [ret |-> "raise", value |-> PlainServerError]

\* FastAPI's default handler of HTTPException.
http_exception_handler(exc) == JSONResponse(exc.status_code, DetailBody(exc.detail))

\* FastAPI's default handler of RequestValidationError.
request_validation_exception_handler(exc) ==
    JSONResponse(422, DetailBody(<< "m", "i", "s", "s", "i", "n", "g" >>))

\* The response to an exception that leaves the route.  Handlers registered for
\* 404 and 401 serve the HTTPExceptions of that status.  The handler registered
\* for 500 is installed as the server-error handler: it serves exceptions nothing
\* else handled, not an HTTPException whose status is 500, which goes to the
\* default handler.  When the server-error handler raises, the server answers
\* with its bare 500.
exception_response(exc) ==
    CASE exc.exc = "HTTPException" /\ exc.status_code = 404 -> not_found_handler(exc)
      [] exc.exc = "HTTPException" /\ exc.status_code = 401 -> unauthorized_handler(exc)
      [] exc.exc = "HTTPException" /\ exc.status_code \notin {401, 404} ->
            http_exception_handler(exc)
      [] exc.exc = "RequestValidationError" ->
            request_validation_exception_handler(exc)
      [] OTHER -> internal_error_handler(exc).value

\* ------------------------------------------------------------- request bodies

\* A body that is not JSON at all.
MalformedBody == [j |-> "malformed", s |-> << >>, m |-> << >>]

UserIds == { << "u", "1" >>, << "u", "2" >>, << >> }

Bodies ==
    { MalformedBody, JObject(<< >>) }
    \cup { JObject(<< Item(UserIdField, JString(u)) >>) : u \in UserIds }

\* LookupRequest: the body is an object whose user_id is a string.
LookupRequest(b) ==
    LET fields == {i \in DOMAIN b.m : b.m[i].k = UserIdField}
    IN  IF /\ b.j = "object"
           /\ fields # {}
           /\ \A i \in fields : b.m[i].x.j = "string"
        THEN [ret |-> "return", user_id |-> b.m[CHOOSE i \in fields : TRUE].x.s]
        ELSE [ret |-> "raise", user_id |-> << >>]

\* ------------------------------------------------------------- document store

\* Documents of the visitor_ids collection: a user_id, and a visitor_id that is
\* a string, an empty string or absent.
Documents ==
    { PyDict(<< Item(UserIdField, PyStr(<< "u", "1" >>)) >>),
      PyDict(<< Item(UserIdField, PyStr(<< "u", "1" >>)),
                Item(VisitorIdField, PyStr(<< >>)) >>),
      PyDict(<< Item(UserIdField, PyStr(<< "u", "1" >>)),
                Item(VisitorIdField, PyStr(<< "v", "1" >>)) >>),
      PyDict(<< Item(UserIdField, PyStr(<< "u", "2" >>)),
                Item(VisitorIdField, PyStr(<< "v", "2" >>)) >>) }

\* The collection, in the store's own order.
Collections == UNION { [1 .. n -> Documents] : n \in 0 .. MaxDocs }

\* The query without its where clause: the first document of the collection.
query_stream_unfiltered(coll, user_id) ==
    SubSeq(coll, 1, IF Len(coll) > 0 THEN 1 ELSE 0)

\* collection.where("user_id", "==", user_id).limit(1).stream()
query_stream(coll, user_id) ==
    LET matching == SelectSeq(coll, LAMBDA d : dict_get(d, UserIdField) = PyStr(user_id))
    IN  SubSeq(matching, 1, IF Len(matching) > 0 THEN 1 ELSE 0)

\* datetime.isoformat()
isoformat(now) == [iso |-> now]

\* -------------------------------------------------------------- Lookup Handler

\* LookupResponse(visitor_id, user_id, found_at), serialized with status 200.
LookupResponse(visitor_id, user_id, found_at) ==
    JSONResponse(200, [shape |-> "lookup", visitor_id |-> visitor_id,
                       user_id |-> user_id, found_at |-> found_at])

\* The try block without the test of visitor_id: the field is returned as found.
lookup_try_unchecked(user_id, store, now) ==
    IF ~store.up
    THEN [ret |-> "raise", exc |-> StoreError, value |-> NoResponse]
    ELSE LET docs == query_stream(store.docs, user_id)
             doc_found == Len(docs) > 0
             visitor_id == IF doc_found THEN dict_get(docs[1], VisitorIdField) ELSE PyNone
         IN  IF ~doc_found
             THEN [ret |-> "raise",
                   exc |-> HTTPException(404, DetailNotFoundPrefix \o user_id),
                   value |-> NoResponse]
             ELSE [ret |-> "return", exc |-> StoreError,
                   value |-> LookupResponse(visitor_id.s, user_id, isoformat(now))]

\* The try block of lookup_visitor_id.  store.up says whether the query can be
\* served, store.docs is the collection it runs on.
lookup_try(user_id, store, now) ==
    IF ~store.up
    THEN [ret |-> "raise", exc |-> StoreError, value |-> NoResponse]
    ELSE LET docs == query_stream(store.docs, user_id)
             doc_found == Len(docs) > 0
             visitor_id == IF doc_found THEN dict_get(docs[1], VisitorIdField) ELSE PyNone
         IN  IF ~doc_found
             THEN [ret |-> "raise",
                   exc |-> HTTPException(404, DetailNotFoundPrefix \o user_id),
                   value |-> NoResponse]
             ELSE IF ~Truthy(visitor_id)
             THEN [ret |-> "raise",
                   exc |-> HTTPException(500, DetailFieldMissing),
                   value |-> NoResponse]
             ELSE [ret |-> "return", exc |-> StoreError,
                   value |-> LookupResponse(visitor_id.s, user_id, isoformat(now))]

\* The except clauses without `except HTTPException: raise`: every exception of
\* the try block becomes an HTTPException with status 500.
lookup_except_generic(r) ==
    IF r.ret = "raise"
    THEN [ret |-> "raise", exc |-> HTTPException(500, DetailInternal),
          value |-> NoResponse]
    ELSE r

\* The except clauses: an HTTPException is raised again, anything else becomes
\* an HTTPException with status 500.
lookup_except(r) ==
    IF r.ret = "raise" /\ r.exc.exc # "HTTPException"
    THEN [ret |-> "raise", exc |-> HTTPException(500, DetailInternal),
          value |-> NoResponse]
    ELSE r

lookup_visitor_id(user_id, store, now) == lookup_except(lookup_try(user_id, store, now))

\* ---------------------------------------------------------------------- state

VARIABLES
    pc,             \* where the request is: idle, body, depends, validate, handler, done
    env,            \* the process environment
    authorization,  \* the request's Authorization header, None when absent
    body,           \* the request's body
    secret,         \* what the secret store answered to this request's read
    api_tokens,     \* what get_api_tokens returned to this request
    prev_tokens,    \* what get_api_tokens returned to the request before
    verified,       \* what verify_api_key did: none, True, False, raise
    store,          \* the document store as this request's query met it
    calls,          \* the outbound calls of this request, in order
    response        \* the response sent

vars ==
    << pc, env, authorization, body, secret, api_tokens, prev_tokens, verified,
       store, calls, response >>

\* Authorization headers a client may send.
Headers ==
    { PyNone,
      PyStr(<< >>),
      PyStr(Bearer),
      PyStr(Bearer \o << "a" >>),
      PyStr(Bearer \o << "b" >>),
      PyStr(Bearer \o << "a", "b" >>),
      PyStr(Bearer \o T1),
      PyStr(Bearer \o Default1),
      PyStr(<< "b", "e", "a", "r", "e", "r", " ", "a" >>),
      PyStr(<< "B", "e", "a", "r", "e", "r", "a" >>),
      PyStr(<< " " >> \o Bearer \o << "a" >>),
      PyStr(<< "a" >>) }

\* The store before any query of the request.
NotQueried == [up |-> TRUE, docs |-> << >>]

Init ==
    /\ pc = "idle"
    /\ env \in Environments
    /\ authorization = PyNone
    /\ body = MalformedBody
    /\ secret = NoAccess
    /\ api_tokens = NotFetched
    /\ prev_tokens = NotFetched
    /\ verified = "none"
    /\ store = NotQueried
    /\ calls = << >>
    /\ response = NoResponse

\* A POST /lookup request arrives.
Receive ==
    /\ pc \in {"idle", "done"}
    /\ pc' = "body"
    /\ authorization' \in Headers
    /\ body' \in Bodies
    /\ prev_tokens' = IF api_tokens = NotFetched THEN prev_tokens ELSE api_tokens
    /\ secret' = NoAccess
    /\ api_tokens' = NotFetched
    /\ verified' = "none"
    /\ store' = NotQueried
    /\ calls' = << >>
    /\ response' = NoResponse
    /\ UNCHANGED env

\* The framework reads the body as JSON before it solves the dependencies.
ReadBody ==
    /\ pc = "body"
    /\ IF body = MalformedBody
       THEN /\ response' = exception_response(RequestValidationError)
            /\ pc' = "done"
       ELSE /\ pc' = "depends"
            /\ UNCHANGED response
    /\ UNCHANGED << env, authorization, body, secret, api_tokens, prev_tokens,
                    verified, store, calls >>

\* The dependency with a token cache: once a mapping was fetched, later requests
\* are checked against it and the secret store is not read again.
GetApiKeyCached ==
    /\ pc = "depends"
    /\ \E outcome \in SecretOutcomes :
         LET cached == prev_tokens.t = "dict" /\ Truthy(authorization)
                       /\ startswith(authorization.s, Bearer)
             hit == PyStr(SliceFrom(authorization.s, 7)) \in dict_values(prev_tokens)
             r == IF cached
                  THEN [ret |-> IF hit THEN "return" ELSE "raise",
                        exc |-> HTTPException(401, DetailInvalidKey),
                        verified |-> IF hit THEN "True" ELSE "False",
                        api_tokens |-> NotFetched]
                  ELSE get_api_key(authorization, outcome, env)
             fetched == r.api_tokens # NotFetched
         IN  /\ api_tokens' = IF cached THEN prev_tokens ELSE r.api_tokens
             /\ verified' = r.verified
             /\ secret' = IF fetched THEN outcome ELSE NoAccess
             /\ calls' = IF fetched THEN Append(calls, "access_secret_version") ELSE calls
             /\ IF r.ret = "raise"
                THEN /\ response' = exception_response(r.exc)
                     /\ pc' = "done"
                ELSE /\ pc' = "validate"
                     /\ UNCHANGED response
    /\ UNCHANGED << env, authorization, body, prev_tokens, store >>

\* Depends(get_api_key): the secret store answers whatever it holds now.
GetApiKey ==
    /\ pc = "depends"
    /\ \E outcome \in SecretOutcomes :
         LET r == get_api_key(authorization, outcome, env)
             fetched == r.api_tokens # NotFetched
         IN  /\ api_tokens' = r.api_tokens
             /\ verified' = r.verified
             /\ secret' = IF fetched THEN outcome ELSE NoAccess
             /\ calls' = IF fetched THEN Append(calls, "access_secret_version") ELSE calls
             /\ IF r.ret = "raise"
                THEN /\ response' = exception_response(r.exc)
                     /\ pc' = "done"
                ELSE /\ pc' = "validate"
                     /\ UNCHANGED response
    /\ UNCHANGED << env, authorization, body, prev_tokens, store >>

\* The body is validated against LookupRequest once the dependencies are solved.
ValidateRequest ==
    /\ pc = "validate"
    /\ IF LookupRequest(body).ret = "raise"
       THEN /\ response' = exception_response(RequestValidationError)
            /\ pc' = "done"
       ELSE /\ pc' = "handler"
            /\ UNCHANGED response
    /\ UNCHANGED << env, authorization, body, secret, api_tokens, prev_tokens,
                    verified, store, calls >>

\* The route without Depends(get_api_key): the handler runs whether or not the
\* dependency has let the request through.
LookupVisitorIdUnguarded ==
    /\ pc \in {"depends", "handler"}
    /\ \E up \in BOOLEAN, coll \in Collections, now \in 0 .. MaxClock :
         LET st == [up |-> up, docs |-> IF up THEN coll ELSE << >>]
             r == lookup_visitor_id(LookupRequest(body).user_id, st, now)
         IN  /\ store' = st
             /\ calls' = Append(calls, "query.stream")
             /\ response' = IF r.ret = "raise" THEN exception_response(r.exc) ELSE r.value
    /\ pc' = "done"
    /\ UNCHANGED << env, authorization, body, secret, api_tokens, prev_tokens,
                    verified >>

\* The route handler: one query of the document store, then the response.
LookupVisitorId ==
    /\ pc = "handler"
    /\ \E up \in BOOLEAN, coll \in Collections, now \in 0 .. MaxClock :
         LET st == [up |-> up, docs |-> IF up THEN coll ELSE << >>]
             r == lookup_visitor_id(LookupRequest(body).user_id, st, now)
         IN  /\ store' = st
             /\ calls' = Append(calls, "query.stream")
             /\ response' = IF r.ret = "raise" THEN exception_response(r.exc) ELSE r.value
    /\ pc' = "done"
    /\ UNCHANGED << env, authorization, body, secret, api_tokens, prev_tokens,
                    verified >>

Next ==
    \/ Receive
    \/ ReadBody
    \/ GetApiKey
    \/ ValidateRequest
    \/ LookupVisitorId

Spec == Init /\ [][Next]_vars

\* verify_api_key called on its own, on every header, environment and answer of
\* the secret store.
InitVerify ==
    /\ pc = "call"
    /\ env \in Environments
    /\ authorization \in Headers
    /\ body = MalformedBody
    /\ secret = NoAccess
    /\ api_tokens = NotFetched
    /\ prev_tokens = NotFetched
    /\ verified = "none"
    /\ store = NotQueried
    /\ calls = << >>
    /\ response = NoResponse

CallVerifyApiKey ==
    /\ pc = "call"
    /\ \E outcome \in SecretOutcomes :
         LET r == verify_api_key(authorization, outcome, env)
             fetched == r.api_tokens # NotFetched
         IN  /\ api_tokens' = r.api_tokens
             /\ verified' = r.ret
             /\ secret' = IF fetched THEN outcome ELSE NoAccess
             /\ calls' = IF fetched THEN Append(calls, "access_secret_version") ELSE calls
    /\ pc' = "returned"
    /\ UNCHANGED << env, authorization, body, prev_tokens, store, response >>

SpecVerify == InitVerify /\ [][CallVerifyApiKey]_vars

\* --------------------------------------------------------------------- claims

\* The header is "Bearer " followed by one of the mapping's string values.
BearerOfValue(auth, tokens) ==
    /\ auth.t = "str"
    /\ \E i \in DOMAIN tokens.m :
         /\ tokens.m[i].x.t = "str"
         /\ auth.s = Bearer \o tokens.m[i].x.s

\* The header carries the "Bearer " prefix.
HasBearerPrefix(auth) ==
    /\ auth.t = "str"
    /\ Len(auth.s) >= 7
    /\ \A i \in 1 .. 7 : auth.s[i] = Bearer[i]

\* The value is a mapping from strings to strings.
IsTokenMapping(x) ==
    /\ x.t = "dict"
    /\ \A i \in DOMAIN x.m : x.m[i].x.t = "str"

\* C1: whenever the Token Provider returned a mapping, verify_api_key returns
\* True exactly when the header is "Bearer " followed by one of the mapping's
\* values; a header for which no mapping is fetched does not carry the prefix
\* and is refused.
C1_AuthorizeIffBearerValue ==
    pc = "returned" =>
        /\ api_tokens = NotFetched =>
             verified = "False" /\ ~HasBearerPrefix(authorization)
        /\ api_tokens.t = "dict" =>
             /\ verified \in {"True", "False"}
             /\ verified = "True" <=> BearerOfValue(authorization, api_tokens)

\* C1 witness: a header made of the prefix and the second value of a fetched
\* two-entry mapping was accepted.
C1_Witness ==
    /\ pc = "returned"
    /\ verified = "True"
    /\ api_tokens.t = "dict"
    /\ Len(api_tokens.m) = 2
    /\ authorization = PyStr(Bearer \o << "b" >>)

\* C2: for every mapping the Token Provider returns, verify_api_key returns
\* False for a missing header, a header without the prefix, a token that is no
\* value of the mapping, and the empty token.
C2_RejectsMissingAndEmpty ==
    (/\ pc = "returned"
     /\ api_tokens = NotFetched \/ IsTokenMapping(api_tokens)
     /\ \/ authorization = PyNone
        \/ ~HasBearerPrefix(authorization)
        \/ ~BearerOfValue(authorization, api_tokens)
        \/ authorization = PyStr(Bearer))
    => verified = "False"

\* C7: get_api_tokens returns a mapping from strings to strings whatever the
\* secret store answers, and the fallback mapping whenever the read did not
\* yield a JSON object.
C7_AlwaysAMapping ==
    api_tokens # NotFetched =>
        /\ IsTokenMapping(api_tokens)
        /\ (secret.kind # "json" \/ secret.payload.j # "object") =>
               api_tokens = fallback_tokens(env)

\* The request was let through by get_api_key and its handler has answered.
Answered ==
    /\ pc = "done"
    /\ verified = "True"
    /\ calls = << "access_secret_version", "query.stream" >>

\* The user_id of the request's body.
RequestUserId == LookupRequest(body).user_id

\* Positions of the documents whose user_id is the request's.
Matching ==
    {i \in DOMAIN store.docs :
        \E f \in DOMAIN store.docs[i].m :
            /\ store.docs[i].m[f].k = UserIdField
            /\ store.docs[i].m[f].x = PyStr(RequestUserId)}

\* The document the limit-1 query yields: the first that matches.
FirstMatch == store.docs[CHOOSE i \in Matching : \A k \in Matching : i <= k]

\* The visitor_id values the document holds: none when the field is absent.
VisitorIdsOf(doc) ==
    {doc.m[f].x : f \in {g \in DOMAIN doc.m : doc.m[g].k = VisitorIdField}}

\* C3: an authorized lookup whose query yields a document with a non-empty
\* visitor_id is answered 200 with that document's visitor_id, the request's
\* user_id and a found_at that is a reading of the clock.
C3_FoundReturnsVisitorId ==
    (/\ Answered
     /\ store.up
     /\ Matching # {}
     /\ \E w \in VisitorIdsOf(FirstMatch) : w.t = "str" /\ w.s # << >>)
    => /\ response.status = 200
       /\ response.content.shape = "lookup"
       /\ PyStr(response.content.visitor_id) \in VisitorIdsOf(FirstMatch)
       /\ response.content.user_id = RequestUserId
       /\ response.content.found_at \in {isoformat(n) : n \in 0 .. MaxClock}

\* C3 witness: user u1 was looked up in a collection whose first document is
\* another user's, and the answer was 200.
C3_Witness ==
    /\ Answered
    /\ store.up
    /\ Len(store.docs) = 2
    /\ Matching = {2}
    /\ RequestUserId = << "u", "1" >>
    /\ response.status = 200

\* C4: an authorized lookup whose query yields no document is answered 404
\* with a message that contains the requested user_id, never 500.
C4_AbsentReturns404 ==
    (/\ Answered
     /\ store.up
     /\ Matching = {})
    => /\ response.status = 404
       /\ response.content.shape = "error"
       /\ Contains(response.content.message, RequestUserId)

\* C4 witness: user u2 was looked up in a collection that holds only documents
\* of another user, and the answer was 404.
C4_Witness ==
    /\ Answered
    /\ store.up
    /\ Len(store.docs) > 0
    /\ Matching = {}
    /\ RequestUserId = << "u", "2" >>
    /\ response.status = 404

\* C5: an authorized lookup whose query yields a document whose visitor_id is
\* absent or empty is answered 500, never 200 and never 404.
C5_MissingFieldReturns500 ==
    (/\ Answered
     /\ store.up
     /\ Matching # {}
     /\ \A w \in VisitorIdsOf(FirstMatch) : w = PyStr(<< >>))
    => response.status = 500

\* C5 witness: the document the query yielded has no visitor_id field at all,
\* and the answer was 500.
C5_Witness ==
    /\ Answered
    /\ store.up
    /\ Matching # {}
    /\ VisitorIdsOf(FirstMatch) = {}
    /\ response.status = 500

\* The body holds no user_id.
LacksUserId == body.j # "object" \/ \A i \in DOMAIN body.m : body.m[i].k # UserIdField

\* C6: a request whose body lacks user_id is answered with a client error
\* (400, 401 or 422), never a server error, and the document store is not queried.
C6_MissingUserIdIsClientError ==
    (pc = "done" /\ LacksUserId)
    => /\ response.status \in {400, 401, 422}
       /\ store = NotQueried
       /\ \A i \in DOMAIN calls : calls[i] # "query.stream"

\* C8: every error response has the body {error, message, status_code} with
\* status_code equal to the HTTP status.
C8_ErrorBodyShape ==
    (pc = "done" /\ response.status >= 400)
    => /\ response.content.shape = "error"
       /\ response.content.status_code = response.status

\* Number of reads of the secret store the request has made.
Fetches == Cardinality({i \in DOMAIN calls : calls[i] = "access_secret_version"})

\* The dependency get_api_key has run for the request.
DependencyRan == pc \in {"validate", "handler"} \/ (pc = "done" /\ body # MalformedBody)

\* C9 as stated: every request reads the secret store.
C9_EveryRequestFetches == pc = "done" => Fetches = 1

\* C9 amended: a request whose body is JSON and whose header starts with
\* "Bearer " reads the secret store exactly once, and what verify_api_key does
\* is decided by that read alone: True when the token is a value of the dict it
\* gave, False when it is not, an exception when it gave no dict.  Any other
\* request is refused without a read.
C9_FreshFetchDecides ==
    /\ DependencyRan /\ HasBearerPrefix(authorization) =>
         /\ Fetches = 1
         /\ secret \in SecretOutcomes
         /\ api_tokens = IF secret.kind = "json"
                         THEN json_loads(secret.payload)
                         ELSE fallback_tokens(env)
         /\ verified = "True" <=>
              api_tokens.t = "dict" /\ BearerOfValue(authorization, api_tokens)
         /\ verified = "raise" <=> api_tokens.t # "dict"
         /\ verified \in {"True", "False", "raise"}
    /\ pc = "done" /\ ~(body # MalformedBody /\ HasBearerPrefix(authorization)) =>
         /\ Fetches = 0
         /\ secret = NoAccess
         /\ verified \in {"none", "False"}
         /\ response.status \in {401, 422}

\* C9 witness: a token that was a value of the mapping the request before
\* fetched is refused by this request, whose own fetch no longer holds it.
C9_Witness ==
    /\ pc = "done"
    /\ verified = "False"
    /\ Fetches = 1
    /\ prev_tokens.t = "dict"
    /\ BearerOfValue(authorization, prev_tokens)

\* C10: the document store is queried only after verify_api_key returned True
\* on a read of the secret store made before, and a request answered 401 has
\* made no query: its response is one of the two fixed 401 bodies.
C10_AuthorizationPrecedesLookup ==
    /\ (\E i \in DOMAIN calls : calls[i] = "query.stream") =>
         /\ verified = "True"
         /\ calls = << "access_secret_version", "query.stream" >>
    /\ store # NotQueried => verified = "True"
    /\ response.status = 401 =>
         /\ store = NotQueried
         /\ \A i \in DOMAIN calls : calls[i] # "query.stream"
         /\ response \in { unauthorized_handler(HTTPException(401, DetailKeyRequired)),
                           unauthorized_handler(HTTPException(401, DetailInvalidKey)) }

\* C10 witness: a request with a well-formed body for user u1 and a token that
\* the fetched mapping does not hold was answered 401.
C10_Witness ==
    /\ pc = "done"
    /\ response.status = 401
    /\ verified = "False"
    /\ Fetches = 1
    /\ RequestUserId = << "u", "1" >>

=============================================================================
